---- MODULE Spec2Model ----
(***************************************************************************)
(* A model of the hand-rolled HTTP/1.1 server of src/src/main.rs: the wire *)
(* codec (Request::parse, Response::into_bytes), the route table, the four *)
(* handlers, the per-connection task and the accept loop.                   *)
(*                                                                         *)
(* A Rust String is its UTF-8 byte sequence, so strings and byte buffers    *)
(* are both sequences of bytes.  A byte is a one-character TLA+ string for  *)
(* the ASCII range; "\r" and "\n" are the line-terminator bytes; BLead and  *)
(* BCont are the two bytes of one two-byte UTF-8 character and BBad is a    *)
(* byte that occurs in no UTF-8 text.                                       *)
(***************************************************************************)
EXTENDS Naturals, Sequences, FiniteSets, TLC

BLead == "xC3"
BCont == "xA9"
BBad == "xFF"

(***************************************************************************)
(* Bounds of the model.                                                    *)
(***************************************************************************)
MaxConns == 2
MaxSegs == 3
MaxHeaders == 2
MaxRoutes == 2
MaxAcceptErrs == 2

MAX_BUFFER_SIZE == 2048

(***************************************************************************)
(* String literals of the program and of the requests.                     *)
(***************************************************************************)
SP == <<" ">>
CRLF == <<"\r", "\n">>
CRLFCRLF == <<"\r", "\n", "\r", "\n">>
ColonSp == <<":", " ">>
S_GET == <<"G", "E", "T">>
S_POST == <<"P", "O", "S", "T">>
S_Root == <<"/">>
S_Echo == <<"/", "e", "c", "h", "o">>
S_EchoSlash == <<"/", "e", "c", "h", "o", "/">>
S_UserAgentPath == <<"/", "u", "s", "e", "r", "-", "a", "g", "e", "n", "t">>
S_Files == <<"/", "f", "i", "l", "e", "s">>
S_FilesSlash == <<"/", "f", "i", "l", "e", "s", "/">>
S_UserAgent == <<"U", "s", "e", "r", "-", "A", "g", "e", "n", "t">>
S_ContentLength == <<"C", "o", "n", "t", "e", "n", "t", "-", "L", "e", "n", "g", "t", "h">>
S_ContentType == <<"C", "o", "n", "t", "e", "n", "t", "-", "T", "y", "p", "e">>
S_TextPlain == <<"t", "e", "x", "t", "/", "p", "l", "a", "i", "n">>
S_OctetStream == <<"a", "p", "p", "l", "i", "c", "a", "t", "i", "o", "n", "/",
                   "o", "c", "t", "e", "t", "-", "s", "t", "r", "e", "a", "m">>
S_Http11 == <<"H", "T", "T", "P", "/", "1", ".", "1">>
S_200 == <<"2", "0", "0", " ", "O", "K">>
S_404 == <<"4", "0", "4", " ", "N", "o", "t", " ", "F", "o", "u", "n", "d">>

(***************************************************************************)
(* std::str and Vec operations used by the program.                        *)
(***************************************************************************)
Min(a, b) == IF a <= b THEN a ELSE b

Drop(s, n) == SubSeq(s, n + 1, Len(s))

Take(s, n) == SubSeq(s, 1, Min(n, Len(s)))

\* str::starts_with
StartsWith(s, p) == Len(p) <= Len(s) /\ SubSeq(s, 1, Len(p)) = p

\* str::find: the index of the first occurrence of p in s, 0 when there is none
RECURSIVE FindFrom(_, _, _)
FindFrom(s, p, i) ==
  IF i + Len(p) - 1 > Len(s) THEN 0
  ELSE IF SubSeq(s, i, i + Len(p) - 1) = p THEN i
  ELSE FindFrom(s, p, i + 1)

Find(s, p) == FindFrom(s, p, 1)

\* str::split(p).collect(): the pieces between the non-overlapping
\* occurrences of p, scanned left to right; a string without p is one piece
RECURSIVE Split(_, _)
Split(s, p) ==
  LET i == Find(s, p)
  IN IF i = 0 THEN <<s>>
     ELSE <<SubSeq(s, 1, i - 1)>> \o Split(Drop(s, i + Len(p) - 1), p)

\* str::replace(from, to): every non-overlapping occurrence, left to right
RECURSIVE Replace(_, _, _)
Replace(s, from, to) ==
  LET i == Find(s, from)
  IN IF i = 0 THEN s
     ELSE SubSeq(s, 1, i - 1) \o to \o Replace(Drop(s, i + Len(from) - 1), from, to)

\* str::strip_prefix: <<rest>> for Some(rest), <<>> for None
StripPrefix(s, p) == IF StartsWith(s, p) THEN <<Drop(s, Len(p))>> ELSE <<>>

\* usize::to_string
Digit(d) == <<"0", "1", "2", "3", "4", "5", "6", "7", "8", "9">>[d + 1]

RECURSIVE ToDecimal(_)
ToDecimal(n) == IF n < 10 THEN <<Digit(n)>> ELSE ToDecimal(n \div 10) \o <<Digit(n % 10)>>

\* String::from_utf8 accepts exactly the well-formed byte sequences: no byte
\* that UTF-8 never uses, every lead byte followed by its continuation byte,
\* every continuation byte after its lead byte
ValidUtf8(b) ==
  \A i \in DOMAIN b :
    /\ b[i] # BBad
    /\ b[i] = BLead => (i < Len(b) /\ b[i + 1] = BCont)
    /\ b[i] = BCont => (i > 1 /\ b[i - 1] = BLead)

(***************************************************************************)
(* Wire codec, decode side.                                                *)
(***************************************************************************)
\* a From<&str> whose default arm is POST
HttpMethodFromDefaultPost(value) ==
  IF value = S_GET THEN "GET"
  ELSE IF value = S_POST THEN "POST"
  ELSE "POST"

\* impl From<&str> for HttpMethod
HttpMethodFrom(value) ==
  IF value = S_GET THEN "GET"
  ELSE IF value = S_POST THEN "POST"
  ELSE "GET"

\* Request::parse_top indexes parts[1]: it panics when the split has one piece
ParseTopPanics(data) == Len(Split(data, SP)) < 2

\* Request::parse_top
ParseTop(data) ==
  LET parts == Split(data, SP)
  IN [method |-> HttpMethodFrom(parts[1]), path |-> parts[2]]

\* the filter of Request::parse_header: the lines that contain a colon
RECURSIVE FilterColon(_)
FilterColon(lines) ==
  IF lines = <<>> THEN <<>>
  ELSE IF Find(Head(lines), <<":">>) # 0
       THEN <<Head(lines)>> \o FilterColon(Tail(lines))
       ELSE FilterColon(Tail(lines))

\* the map of Request::parse_header indexes key_value[1]: it panics on a kept
\* line that splits on ": " into one piece
ParseHeaderPanics(lines) ==
  \E i \in DOMAIN FilterColon(lines) : Len(Split(FilterColon(lines)[i], ColonSp)) < 2

\* collect::<HashMap<_, _>>(): a later pair replaces an earlier one of the same key
CollectMap(pairs) ==
  LET keys == {pairs[i][1] : i \in DOMAIN pairs}
      last(k) == CHOOSE i \in DOMAIN pairs :
                   /\ pairs[i][1] = k
                   /\ \A j \in DOMAIN pairs : pairs[j][1] = k => j <= i
  IN [k \in keys |-> pairs[last(k)][2]]

\* Request::parse_header
ParseHeader(lines) ==
  LET kept == FilterColon(lines)
      pair(line) == LET key_value == Split(line, ColonSp)
                    IN <<key_value[1], key_value[2]>>
  IN CollectMap([i \in DOMAIN kept |-> pair(kept[i])])

\* Request::parse after from_utf8: "Panic" is an index out of bounds in
\* parse_top or parse_header, "Ok" carries the Request
ParseText(string) ==
  LET lines == Split(string, CRLFCRLF)
      parts == Split(lines[1], CRLF)
  IN IF ParseTopPanics(parts[1]) THEN [kind |-> "Panic", req |-> <<>>]
     ELSE IF ParseHeaderPanics(Tail(parts)) THEN [kind |-> "Panic", req |-> <<>>]
     ELSE [kind |-> "Ok",
           req |-> <<[method |-> ParseTop(parts[1]).method,
                      path |-> ParseTop(parts[1]).path,
                      headers |-> ParseHeader(Tail(parts))]>>]

\* Request::parse without the from_utf8 check
ParseLossy(data) == ParseText(data)

\* Request::parse: "Err" is the from_utf8 error the ? operator returns
Parse(data) ==
  IF ~ValidUtf8(data) THEN [kind |-> "Err", req |-> <<>>]
  ELSE ParseText(data)

\* a slice end that saturates at 0: no length makes it panic
SliceEndSaturates(len) == len < 0

\* read_request after the read delivered buf: len - 1 in usize arithmetic.  At
\* len = 0 the subtraction panics (overflow checks on) or wraps to usize::MAX,
\* a slice end beyond the buffer, which panics as well.
SliceEndPanics(len) == len < 1

\* read_request handing all the bytes read to Request::parse
DecodeWhole(buf) ==
  LET len == Len(buf)
  IN IF SliceEndPanics(len) THEN [kind |-> "Panic", req |-> <<>>]
     ELSE Parse(SubSeq(buf, 1, len))

\* read_request: the slice buf[..len - 1], then Request::parse
Decode(buf) ==
  LET len == Len(buf)
  IN IF SliceEndPanics(len) THEN [kind |-> "Panic", req |-> <<>>]
     ELSE Parse(SubSeq(buf, 1, len - 1))

(***************************************************************************)
(* Responses and the encode side of the wire codec.  An Option is <<>> for *)
(* None and <<v>> for Some(v); a HashMap is a function on its keys.        *)
(***************************************************************************)
\* impl ToString for HttpCode
HttpCodeToString(code) == IF code = "OK" THEN S_200 ELSE S_404

EmptyResponse(code) == [code |-> code, content |-> <<>>, headers |-> <<>>]

\* HashMap::from([(Content-Length, len), (Content-Type, type)])
BodyHeaders(len, type) ==
  [k \in {S_ContentLength, S_ContentType} |->
     IF k = S_ContentLength THEN ToDecimal(len) ELSE type]

\* the orders in which a HashMap's into_iter may yield its keys
KeyOrders(map) ==
  {o \in [1..Cardinality(DOMAIN map) -> DOMAIN map] :
     \A k \in DOMAIN map : \E i \in DOMAIN o : o[i] = k}

RECURSIVE HeaderLinesBytes(_, _)
HeaderLinesBytes(map, order) ==
  IF order = <<>> THEN <<>>
  ELSE Head(order) \o ColonSp \o map[Head(order)] \o CRLF
       \o HeaderLinesBytes(map, Tail(order))

\* into_bytes ending the body with a line terminator
IntoBytesTerminated(res, order) ==
  S_Http11 \o SP \o HttpCodeToString(res.code) \o CRLF
  \o (IF res.headers # <<>> THEN HeaderLinesBytes(res.headers[1], order) ELSE <<>>)
  \o CRLF
  \o (IF res.content # <<>> THEN res.content[1] \o CRLF ELSE <<>>)

\* Response::into_bytes, the headers taken in the given iteration order
IntoBytes(res, order) ==
  S_Http11 \o SP \o HttpCodeToString(res.code) \o CRLF
  \o (IF res.headers # <<>> THEN HeaderLinesBytes(res.headers[1], order) ELSE <<>>)
  \o CRLF
  \o (IF res.content # <<>> THEN res.content[1] ELSE <<>>)

HeaderOrders(res) == IF res.headers # <<>> THEN KeyOrders(res.headers[1]) ELSE {<<>>}

(***************************************************************************)
(* Handlers.                                                               *)
(***************************************************************************)
\* the closure registered for "/" in main
Root(req, directory) == EmptyResponse("OK")

\* echo with the Content-Length taken from the path
EchoPathLen(req, directory) ==
  LET value == Replace(req.path, S_EchoSlash, <<>>)
  IN [code |-> "OK",
      content |-> <<value>>,
      headers |-> <<BodyHeaders(Len(req.path), S_TextPlain)>>]

\* echo
Echo(req, directory) ==
  LET value == Replace(req.path, S_EchoSlash, <<>>)
  IN [code |-> "OK",
      content |-> <<value>>,
      headers |-> <<BodyHeaders(Len(value), S_TextPlain)>>]

\* user_agent answering NotFound when the header is absent
UserAgentOrNotFound(req, directory) ==
  IF S_UserAgent \in DOMAIN req.headers
  THEN LET value == req.headers[S_UserAgent]
       IN [code |-> "OK",
           content |-> <<value>>,
           headers |-> <<BodyHeaders(Len(value), S_TextPlain)>>]
  ELSE EmptyResponse("NotFound")

\* user_agent
UserAgent(req, directory) ==
  IF S_UserAgent \in DOMAIN req.headers
  THEN LET value == req.headers[S_UserAgent]
       IN [code |-> "OK",
           content |-> <<value>>,
           headers |-> <<BodyHeaders(Len(value), S_TextPlain)>>]
  ELSE EmptyResponse("OK")

\* get_file answering OK with what was read before read_to_end failed
GetFilePartial(req, directory, disk, openOk, readOk) ==
  LET stripped == StripPrefix(req.path, S_FilesSlash)
  IN IF stripped = <<>> THEN EmptyResponse("NotFound")
     ELSE LET filename == <<"/">> \o directory \o <<"/">> \o stripped[1]
          IN IF filename \notin DOMAIN disk THEN EmptyResponse("NotFound")
             ELSE IF ~openOk THEN EmptyResponse("NotFound")
             ELSE LET buf == IF disk[filename].kind # "file" \/ ~readOk THEN <<>>
                             ELSE disk[filename].data
                  IN [code |-> "OK",
                      content |-> <<buf>>,
                      headers |-> <<BodyHeaders(Len(buf), S_OctetStream)>>]

\* get_file; disk is the filesystem (path -> [kind, data]), openOk and readOk
\* whether File::open and read_to_end succeed on an entry that exists
GetFile(req, directory, disk, openOk, readOk) ==
  LET stripped == StripPrefix(req.path, S_FilesSlash)
  IN IF stripped = <<>> THEN EmptyResponse("NotFound")
     ELSE LET filename == <<"/">> \o directory \o <<"/">> \o stripped[1]
          IN IF filename \notin DOMAIN disk THEN EmptyResponse("NotFound")
             ELSE IF ~openOk THEN EmptyResponse("NotFound")
             ELSE IF disk[filename].kind # "file" \/ ~readOk
                  THEN EmptyResponse("NotFound")
             ELSE LET buf == disk[filename].data
                  IN [code |-> "OK",
                      content |-> <<buf>>,
                      headers |-> <<BodyHeaders(Len(buf), S_OctetStream)>>]

\* the call handler(req, &self.directory) of Routes::execute
CallHandler(handler, req, directory, disk, openOk, readOk) ==
  CASE handler = "root" -> Root(req, directory)
    [] handler = "echo" -> Echo(req, directory)
    [] handler = "user_agent" -> UserAgent(req, directory)
    [] handler = "get_file" -> GetFile(req, directory, disk, openOk, readOk)

(***************************************************************************)
(* Route table.                                                            *)
(***************************************************************************)
\* Route::new
RouteNew(method, path, compare_type, handler) ==
  [method |-> HttpMethodFrom(method), path |-> path,
   compare_type |-> compare_type, handler |-> handler]

\* Route::matches with a Prefix mode that stops at a segment boundary
MatchesAligned(route, req) ==
  IF route.compare_type = "Exact"
  THEN IF route.path = req.path /\ route.method = req.method
       THEN <<route.handler>> ELSE <<>>
  ELSE IF /\ StartsWith(req.path, route.path)
          /\ (Len(req.path) = Len(route.path) \/ req.path[Len(route.path) + 1] = "/")
          /\ route.method = req.method
       THEN <<route.handler>> ELSE <<>>

\* Route::matches: <<handler>> for Some(&handler), <<>> for None
Matches(route, req) ==
  IF route.compare_type = "Exact"
  THEN IF route.path = req.path /\ route.method = req.method
       THEN <<route.handler>> ELSE <<>>
  ELSE IF StartsWith(req.path, route.path) /\ route.method = req.method
       THEN <<route.handler>> ELSE <<>>

\* the loop of Routes::execute without its return: the last match is kept
RECURSIVE ExecuteLastFrom(_, _, _)
ExecuteLastFrom(table, i, req) ==
  IF i > Len(table) THEN 0
  ELSE IF ExecuteLastFrom(table, i + 1, req) # 0 THEN ExecuteLastFrom(table, i + 1, req)
  ELSE IF Matches(table[i], req) # <<>> THEN i
  ELSE 0

\* the for loop of Routes::execute from entry i on: the index of the entry
\* whose handler is called, 0 when the loop runs off the end
RECURSIVE ExecuteFrom(_, _, _)
ExecuteFrom(table, i, req) ==
  IF i > Len(table) THEN 0
  ELSE IF Matches(table[i], req) # <<>> THEN i
  ELSE ExecuteFrom(table, i + 1, req)

\* Routes::add
RoutesAdd(table, route) == Append(table, route)

\* the four routes.add calls of main on the empty table of Routes::new
MainRoutes ==
  RoutesAdd(RoutesAdd(RoutesAdd(RoutesAdd(<<>>,
    RouteNew(S_GET, S_Root, "Exact", "root")),
    RouteNew(S_GET, S_Echo, "Prefix", "echo")),
    RouteNew(S_GET, S_UserAgentPath, "Exact", "user_agent")),
    RouteNew(S_GET, S_Files, "Prefix", "get_file"))

(***************************************************************************)
(* The environment: process arguments, the disk, what clients send.        *)
(***************************************************************************)
S_Prog == <<"s", "r", "v">>
S_DirFlag == <<"-", "-", "d", "i", "r", "e", "c", "t", "o", "r", "y">>
S_OtherFlag == <<"-", "-", "d", "i", "r">>
S_Dir == <<"d">>
S_FileA == <<"a">>
S_Accent == <<BLead, BCont>>

ArgVectors ==
  { <<S_Prog>>,
    <<S_Prog, S_DirFlag>>,
    <<S_Prog, S_OtherFlag>>,
    <<S_Prog, S_DirFlag, S_Dir>>,
    <<S_Prog, S_OtherFlag, S_Dir>>,
    <<S_Prog, S_OtherFlag, S_Dir, S_Dir>> }

GoodArgs == <<S_Prog, S_DirFlag, S_Dir>>

\* a disk holding the base directory /d/ and, for content # <<>>, the file /d/a
DirEntry == [kind |-> "dir", data |-> <<>>]

DiskWith(content) ==
  [p \in {<<"/">> \o S_Dir \o <<"/">>}
        \cup (IF content = <<>> THEN {} ELSE {<<"/">> \o S_Dir \o <<"/">> \o S_FileA})
     |-> IF p = <<"/">> \o S_Dir \o <<"/">> THEN DirEntry
         ELSE [kind |-> "file", data |-> content[1]]]

FileContents == {<<>>, <<"h", "i">>, S_Accent, CRLFCRLF}

Disks == {DiskWith(<<>>)} \cup {DiskWith(<<c>>) : c \in FileContents}

\* concatenations of 1..n pieces taken from a set of byte strings
RECURSIVE Concats(_, _)
Concats(pieces, n) ==
  IF n = 0 THEN {}
  ELSE pieces \cup {a \o b : a \in pieces, b \in Concats(pieces, n - 1)}

RECURSIVE JoinLines(_)
JoinLines(lines) ==
  IF lines = <<>> THEN <<>> ELSE CRLF \o Head(lines) \o JoinLines(Tail(lines))

\* the bytes of a request: start-line, header lines, the empty line
Req(method, path, lines) ==
  method \o SP \o path \o SP \o S_Http11 \o JoinLines(lines) \o CRLFCRLF

PathSegs == {S_Root, S_FileA, S_Echo, S_EchoSlash, S_Files, S_UserAgentPath, S_Accent}

Paths == Concats(PathSegs, MaxSegs)

S_Lower == <<"g", "e", "t">>
S_Delete == <<"D", "E", "L", "E", "T", "E">>
MethodTokens == {S_GET, S_POST, S_Lower, S_Delete, <<>>}

S_Nope == <<"/", "n", "o", "p", "e">>
FewPaths == {S_Root, S_EchoSlash \o S_FileA, S_Nope, S_UserAgentPath,
             S_FilesSlash \o S_FileA}

S_Curl == <<"c", "u", "r", "l", "/", "8">>
S_Host == <<"H", "o", "s", "t">>
HeaderLines ==
  { S_UserAgent \o ColonSp \o S_Curl,
    S_UserAgent \o ColonSp \o S_FileA \o ColonSp \o S_FileA,
    S_UserAgent \o ColonSp \o S_Accent,
    <<"u", "s", "e", "r", "-", "a", "g", "e", "n", "t">> \o ColonSp \o S_Curl,
    S_Host \o ColonSp,
    S_Host,
    S_Host \o <<":">> \o S_FileA }

RECURSIVE LineSeqs(_)
LineSeqs(n) ==
  IF n = 0 THEN {<<>>}
  ELSE LineSeqs(n - 1)
       \cup {<<l>> \o ls : l \in HeaderLines, ls \in {x \in LineSeqs(n - 1) : Len(x) = n - 1}}

\* received bytes that are no well-formed request
Malformed ==
  { <<>>,
    <<"\n">>,
    S_GET,
    S_GET \o CRLFCRLF,
    S_GET \o SP,
    S_GET \o SP \o S_Root \o SP \o <<BBad>>,
    S_GET \o SP \o S_Root \o <<BBad>> \o CRLFCRLF,
    <<BBad>>,
    S_GET \o SP \o S_EchoSlash \o S_Accent,
    S_GET \o SP \o S_EchoSlash \o <<"a", "b", "c">>,
    S_GET \o SP \o SP \o S_Root \o CRLFCRLF }

\* what one read may deliver under the single-client specification
WireRequests ==
  {Req(S_GET, p, <<>>) : p \in Paths}
  \cup {Req(m, p, <<>>) : m \in MethodTokens, p \in FewPaths}
  \cup {Req(S_GET, S_UserAgentPath, ls) : ls \in LineSeqs(MaxHeaders)}
  \cup {Req(S_POST, S_Root, <<l>>) : l \in HeaderLines}
  \cup Malformed

\* what one read may deliver when several clients connect at once
ScenarioRequests ==
  { Req(S_GET, S_FilesSlash \o S_FileA, <<>>),
    S_GET,
    S_GET \o SP \o S_Nope \o SP \o <<BBad>>,
    S_GET \o SP \o S_Root \o <<BBad>> \o CRLFCRLF,
    <<>> }

\* what one read may deliver under the specification of the accept loop
AcceptRequests == {Req(S_GET, S_Root, <<>>), Req(S_GET, S_Nope, <<>>)}

\* route entries and requests for tables built by arbitrary Routes::add calls
RouteChoices ==
  {RouteNew(m, p, t, h) : m \in {S_GET, S_POST}, p \in {S_Root, S_Echo},
                          t \in {"Exact", "Prefix"}, h \in {"root", "echo"}}

RouteRequests ==
  {Req(m, p, <<>>) : m \in {S_GET, S_POST}, p \in {S_Root, S_Echo, S_Echo \o S_FileA}}
  \cup {Req(m, S_Echo, <<>>) : m \in MethodTokens}

(***************************************************************************)
(* State.                                                                  *)
(*   args        the process arguments (env::args)                         *)
(*   disk        the filesystem get_file reads                             *)
(*   mainpc      where main is: "init", "build" (a table under             *)
(*               construction), "loop", "exited", "panicked"               *)
(*   routes      Routes.routes                                             *)
(*   directory   Routes.directory                                          *)
(*   conns       the spawned connection tasks, by slot                     *)
(*   acceptErrs  the "Error: ..." lines the accept loop has printed, as far *)
(*               as a specification counts them                             *)
(***************************************************************************)
VARIABLES args, disk, mainpc, routes, directory, conns, acceptErrs

vars == <<args, disk, mainpc, routes, directory, conns, acceptErrs>>

Conns == 1..MaxConns

\* a slot no task was spawned for
FreeConn ==
  [pc |-> "free",        \* free, spawned, read, decoded, routed, responded,
                         \* encoded, written, ended
   buf |-> <<>>,         \* the bytes the read delivered
   data |-> <<>>,        \* Some(the slice handed to Request::parse)
   req |-> <<>>,         \* Some(the decoded Request)
   route |-> 0,          \* the index of the entry whose handler is called
   res |-> <<>>,         \* Some(the Response)
   wire |-> <<>>,        \* Some(the bytes of Response::into_bytes)
   out |-> <<>>,         \* the bytes written to the socket
   outcome |-> "none",   \* none, read_err, decode_err, panic, sent, write_err
   log |-> <<>>]         \* the steps taken, in order

InitWith(argSet, diskSet) ==
  /\ args \in argSet
  /\ disk \in diskSet
  /\ mainpc = "init"
  /\ routes = <<>>
  /\ directory = <<>>
  /\ conns = [c \in Conns |-> FreeConn]
  /\ acceptErrs = 0

(***************************************************************************)
(* main up to the accept loop.                                             *)
(***************************************************************************)
\* main, lines 293-299: "panic" is an index out of bounds on args, "exit" the
\* early return, "loop" the way on to the route table and the accept loop
StartupOutcome(a) ==
  IF Len(a) # 3 /\ Len(a) < 2 THEN "panic"
  ELSE IF Len(a) # 3 /\ a[2] # S_DirFlag THEN "exit"
  ELSE IF Len(a) < 3 THEN "panic"
  ELSE "loop"

Startup ==
  /\ mainpc = "init"
  /\ \E bindOk \in BOOLEAN :
       IF ~bindOk \/ StartupOutcome(args) = "panic"
       THEN mainpc' = "panicked" /\ UNCHANGED <<routes, directory>>
       ELSE IF StartupOutcome(args) = "exit"
       THEN mainpc' = "exited" /\ UNCHANGED <<routes, directory>>
       ELSE /\ mainpc' = "loop"
            /\ directory' = args[3]
            /\ routes' = MainRoutes
  /\ UNCHANGED <<args, disk, conns, acceptErrs>>

(***************************************************************************)
(* The accept loop.                                                        *)
(***************************************************************************)
\* Ok((stream, _)): one task is spawned, owning the stream
AcceptOk(slots) ==
  /\ mainpc = "loop"
  /\ \E c \in slots :
       /\ conns[c].pc = "free"
       /\ \A d \in slots : d < c => conns[d].pc # "free"
       /\ conns' = [conns EXCEPT ![c].pc = "spawned"]
  /\ UNCHANGED <<args, disk, mainpc, routes, directory, acceptErrs>>

\* an Err(e) arm that leaves the loop
AcceptErrBreaks(counted) ==
  /\ mainpc = "loop"
  /\ mainpc' = "exited"
  /\ acceptErrs' = Min(acceptErrs + 1, counted)
  /\ UNCHANGED <<args, disk, routes, directory, conns>>

\* Err(e): the error is printed and the loop goes on; the printed lines are
\* counted up to the given number, and no other state is kept of the error
AcceptErr(counted) ==
  /\ mainpc = "loop"
  /\ acceptErrs' = Min(acceptErrs + 1, counted)
  /\ UNCHANGED <<args, disk, mainpc, routes, directory, conns>>

(***************************************************************************)
(* The connection task.                                                    *)
(***************************************************************************)
Logged(c, step) == Append(conns[c].log, step)

\* stream.read_buf(&mut buf) returns Ok(len)
ReadOk(c, pool) ==
  /\ conns[c].pc = "spawned"
  /\ \E sent \in pool :
       conns' = [conns EXCEPT ![c].pc = "read",
                              ![c].buf = Take(sent, MAX_BUFFER_SIZE),
                              ![c].log = Logged(c, "read")]
  /\ UNCHANGED <<args, disk, mainpc, routes, directory, acceptErrs>>

\* stream.read_buf(&mut buf) returns Err: read_request returns it, the task
\* prints it and returns
ReadErr(c) ==
  /\ conns[c].pc = "spawned"
  /\ conns' = [conns EXCEPT ![c].pc = "ended",
                            ![c].outcome = "read_err",
                            ![c].log = Logged(c, "read") \o <<"end">>]
  /\ UNCHANGED <<args, disk, mainpc, routes, directory, acceptErrs>>

\* the slice and Request::parse run in main itself, not in a spawned task: a
\* panic unwinds main
DecodeStepUnwinds(c) ==
  /\ conns[c].pc = "read"
  /\ LET buf == conns[c].buf
         got == Decode(buf)
         data == IF SliceEndPanics(Len(buf)) THEN <<>> ELSE <<SubSeq(buf, 1, Len(buf) - 1)>>
     IN IF got.kind = "Ok"
        THEN /\ conns' = [conns EXCEPT ![c].pc = "decoded",
                                       ![c].data = data,
                                       ![c].req = got.req,
                                       ![c].log = Logged(c, "decode")]
             /\ UNCHANGED mainpc
        ELSE /\ conns' = [conns EXCEPT ![c].pc = "ended",
                                       ![c].data = data,
                                       ![c].outcome = IF got.kind = "Err" THEN "decode_err"
                                                      ELSE "panic",
                                       ![c].log = Logged(c, "decode") \o <<"end">>]
             /\ mainpc' = IF got.kind = "Panic" THEN "panicked" ELSE mainpc
  /\ UNCHANGED <<args, disk, routes, directory, acceptErrs>>

\* the rest of read_request: the slice and Request::parse
DecodeStep(c) ==
  /\ conns[c].pc = "read"
  /\ LET buf == conns[c].buf
         got == Decode(buf)
         data == IF SliceEndPanics(Len(buf)) THEN <<>> ELSE <<SubSeq(buf, 1, Len(buf) - 1)>>
     IN IF got.kind = "Ok"
        THEN conns' = [conns EXCEPT ![c].pc = "decoded",
                                    ![c].data = data,
                                    ![c].req = got.req,
                                    ![c].log = Logged(c, "decode")]
        ELSE conns' = [conns EXCEPT ![c].pc = "ended",
                                    ![c].data = data,
                                    ![c].outcome = IF got.kind = "Err" THEN "decode_err"
                                                   ELSE "panic",
                                    ![c].log = Logged(c, "decode") \o <<"end">>]
  /\ UNCHANGED <<args, disk, mainpc, routes, directory, acceptErrs>>

\* a self-adjusting table: the entry that matched moves to the front
RouteStepOnce(c) ==
  /\ conns[c].pc = "decoded"
  /\ LET i == ExecuteFrom(routes, 1, conns[c].req[1])
     IN /\ conns' = [conns EXCEPT ![c].pc = "routed",
                                  ![c].route = IF i = 0 THEN 0 ELSE 1,
                                  ![c].log = Logged(c, "route")]
        /\ routes' = IF i = 0 THEN routes
                     ELSE <<routes[i]>> \o SubSeq(routes, 1, i - 1)
                          \o SubSeq(routes, i + 1, Len(routes))
  /\ UNCHANGED <<args, disk, mainpc, directory, acceptErrs>>

\* Routes::execute, the loop over the entries
RouteStep(c) ==
  /\ conns[c].pc = "decoded"
  /\ conns' = [conns EXCEPT ![c].pc = "routed",
                            ![c].route = ExecuteFrom(routes, 1, conns[c].req[1]),
                            ![c].log = Logged(c, "route")]
  /\ UNCHANGED <<args, disk, mainpc, routes, directory, acceptErrs>>

\* Routes::execute, an entry matched: its handler is called
HandlerStep(c) ==
  /\ conns[c].pc = "routed"
  /\ conns[c].route # 0
  /\ \E openOk \in BOOLEAN, readOk \in BOOLEAN :
       conns' = [conns EXCEPT
                   ![c].pc = "responded",
                   ![c].res = <<CallHandler(routes[conns[c].route].handler, conns[c].req[1],
                                            directory, disk, openOk, readOk)>>,
                   ![c].log = Logged(c, "handler")]
  /\ UNCHANGED <<args, disk, mainpc, routes, directory, acceptErrs>>

\* a default Response with the other status
DefaultResponseOk == EmptyResponse("OK")

\* the Response Routes::execute builds after the loop
DefaultResponse == EmptyResponse("NotFound")

\* Routes::execute, no entry matched: the default Response
NoMatchStep(c) ==
  /\ conns[c].pc = "routed"
  /\ conns[c].route = 0
  /\ conns' = [conns EXCEPT ![c].pc = "responded",
                            ![c].res = <<DefaultResponse>>]
  /\ UNCHANGED <<args, disk, mainpc, routes, directory, acceptErrs>>

\* Routes::send_response, data.into_bytes()
EncodeStep(c) ==
  /\ conns[c].pc = "responded"
  /\ \E order \in HeaderOrders(conns[c].res[1]) :
       conns' = [conns EXCEPT ![c].pc = "encoded",
                              ![c].wire = <<IntoBytes(conns[c].res[1], order)>>,
                              ![c].log = Logged(c, "encode")]
  /\ UNCHANGED <<args, disk, mainpc, routes, directory, acceptErrs>>

\* Routes::send_response, write_all returns Ok
WriteOk(c) ==
  /\ conns[c].pc = "encoded"
  /\ conns' = [conns EXCEPT ![c].pc = "written",
                            ![c].out = conns[c].out \o conns[c].wire[1],
                            ![c].outcome = "sent",
                            ![c].log = Logged(c, "write")]
  /\ UNCHANGED <<args, disk, mainpc, routes, directory, acceptErrs>>

\* how much of the bytes a failing write_all may have written
PartialWrites(bytes) == {0, Len(bytes) - 1}

\* a send_response that writes again after an Err
WriteErrRetry(c) ==
  /\ conns[c].pc = "encoded"
  /\ \E n \in PartialWrites(conns[c].wire[1]) :
       conns' = [conns EXCEPT ![c].out = conns[c].out \o SubSeq(conns[c].wire[1], 1, n),
                              ![c].outcome = "write_err",
                              ![c].log = Logged(c, "write")]
  /\ UNCHANGED <<args, disk, mainpc, routes, directory, acceptErrs>>

\* Routes::send_response, write_all returns Err: the error is printed
WriteErr(c) ==
  /\ conns[c].pc = "encoded"
  /\ \E n \in PartialWrites(conns[c].wire[1]) :
       conns' = [conns EXCEPT ![c].pc = "written",
                              ![c].out = conns[c].out \o SubSeq(conns[c].wire[1], 1, n),
                              ![c].outcome = "write_err",
                              ![c].log = Logged(c, "write")]
  /\ UNCHANGED <<args, disk, mainpc, routes, directory, acceptErrs>>

\* the task's future completes and the stream is dropped
EndTask(c) ==
  /\ conns[c].pc = "written"
  /\ conns' = [conns EXCEPT ![c].pc = "ended",
                            ![c].log = Logged(c, "end")]
  /\ UNCHANGED <<args, disk, mainpc, routes, directory, acceptErrs>>

ConnStep(c, pool) ==
  \/ ReadOk(c, pool)
  \/ ReadErr(c)
  \/ DecodeStep(c)
  \/ RouteStep(c)
  \/ HandlerStep(c)
  \/ NoMatchStep(c)
  \/ EncodeStep(c)
  \/ WriteOk(c)
  \/ WriteErr(c)
  \/ EndTask(c)

(***************************************************************************)
(* Spec: the server as main starts it, with up to MaxConns clients at once.*)
(***************************************************************************)
ScenarioDisk == DiskWith(<<<<"h", "i">>>>)

Init == InitWith(ArgVectors, {ScenarioDisk})

Next ==
  \/ Startup
  \/ AcceptOk(Conns)
  \/ AcceptErr(0)
  \/ \E c \in Conns : ConnStep(c, ScenarioRequests)

Spec == Init /\ [][Next]_vars

(***************************************************************************)
(* SpecWire: the server with its proper arguments and one client, over the *)
(* generated requests and every disk.                                      *)
(***************************************************************************)
InitWire == InitWith({GoodArgs}, Disks)

NextWire ==
  \/ Startup
  \/ AcceptOk({1})
  \/ AcceptErr(0)
  \/ ConnStep(1, WireRequests)

SpecWire == InitWire /\ [][NextWire]_vars

(***************************************************************************)
(* SpecRoutes: a Routes value built by up to MaxRoutes arbitrary add calls,*)
(* then shared with the accept loop and one client.                        *)
(***************************************************************************)
InitRoutes ==
  /\ args = GoodArgs
  /\ disk = DiskWith(<<>>)
  /\ mainpc = "build"
  /\ routes = <<>>
  /\ directory = S_Dir
  /\ conns = [c \in Conns |-> FreeConn]
  /\ acceptErrs = 0

\* routes.add(route)
AddRoute ==
  /\ mainpc = "build"
  /\ Len(routes) < MaxRoutes
  /\ \E route \in RouteChoices : routes' = RoutesAdd(routes, route)
  /\ UNCHANGED <<args, disk, mainpc, directory, conns, acceptErrs>>

\* Arc::new(routes): the table is built
Serve ==
  /\ mainpc = "build"
  /\ mainpc' = "loop"
  /\ UNCHANGED <<args, disk, routes, directory, conns, acceptErrs>>

NextRoutes ==
  \/ AddRoute
  \/ Serve
  \/ AcceptOk({1})
  \/ AcceptErr(0)
  \/ ConnStep(1, RouteRequests)

SpecRoutes == InitRoutes /\ [][NextRoutes]_vars

(***************************************************************************)
(* SpecAccept: the accept loop with its printed errors counted, the         *)
(* runtime scheduling main again and the listener returning an outcome as   *)
(* long as the bounds leave one.                                            *)
(***************************************************************************)
InitAccept == InitWith({GoodArgs}, {DiskWith(<<>>)})

NextAccept ==
  \/ Startup
  \/ AcceptOk(Conns)
  \/ AcceptErr(MaxAcceptErrs)
  \/ \E c \in Conns : ConnStep(c, AcceptRequests)

SpecAccept ==
  /\ InitAccept
  /\ [][NextAccept]_vars
  /\ WF_vars(AcceptOk(Conns) \/ AcceptErr(MaxAcceptErrs))

(***************************************************************************)
(* Vocabulary of the properties, stated without the operators above.       *)
(***************************************************************************)
\* p is an initial segment of s
IsPrefixOf(p, s) == Len(p) <= Len(s) /\ \A i \in 1..Len(p) : s[i] = p[i]

\* the entry's method is the request's and its path matches under its mode
EntryMatches(route, req) ==
  /\ route.method = req.method
  /\ \/ route.compare_type = "Exact" /\ req.path = route.path
     \/ route.compare_type = "Prefix" /\ IsPrefixOf(route.path, req.path)

MatchingEntries(req) == {i \in DOMAIN routes : EntryMatches(routes[i], req)}

Least(S) == CHOOSE i \in S : \A j \in S : i <= j

Times(log, step) == Cardinality({i \in DOMAIN log : log[i] = step})

Never(log, step) == \A i \in DOMAIN log : log[i] # step

\* the task of slot c has a Response
Responded(c) == conns[c].res # <<>>

NotFoundBytes ==
  <<"H", "T", "T", "P", "/", "1", ".", "1", " ", "4", "0", "4", " ",
    "N", "o", "t", " ", "F", "o", "u", "n", "d", "\r", "\n", "\r", "\n">>

(***************************************************************************)
(* C1: of the entries that match a request, the handler of the earliest    *)
(* added one, and only that handler, is called once; its Response is the    *)
(* one encoded and sent.                                                    *)
(***************************************************************************)
C1_FirstMatchWins ==
  \A c \in Conns :
    (Responded(c) /\ MatchingEntries(conns[c].req[1]) # {}) =>
      LET req == conns[c].req[1]
          first == Least(MatchingEntries(req))
      IN /\ conns[c].route = first
         /\ Times(conns[c].log, "handler") = 1
         /\ \E openOk \in BOOLEAN, readOk \in BOOLEAN :
              conns[c].res[1] = CallHandler(routes[first].handler, req, directory,
                                            disk, openOk, readOk)
         /\ conns[c].outcome = "sent" =>
              \E order \in HeaderOrders(conns[c].res[1]) :
                conns[c].out = IntoBytes(conns[c].res[1], order)

\* two entries with different handlers match and the response was sent
C1_Witness ==
  \E c \in Conns :
    /\ conns[c].outcome = "sent"
    /\ Cardinality(MatchingEntries(conns[c].req[1])) >= 2
    /\ \E i, j \in MatchingEntries(conns[c].req[1]) :
         routes[i].handler # routes[j].handler

(***************************************************************************)
(* C2: Route::matches yields the entry's handler exactly when the methods   *)
(* are equal and the path is equal (Exact) or has the entry's path as an    *)
(* initial segment (Prefix), segment-aligned or not; otherwise nothing.     *)
(***************************************************************************)
C2_MatchesExactly ==
  \A c \in Conns :
    conns[c].req # <<>> =>
      \A i \in DOMAIN routes :
        Matches(routes[i], conns[c].req[1]) =
          IF EntryMatches(routes[i], conns[c].req[1]) THEN <<routes[i].handler>> ELSE <<>>

\* a Prefix entry /echo first in the table took the request path /echoa
C2_Witness ==
  \E c \in Conns :
    /\ conns[c].pc = "routed"
    /\ conns[c].route = 1
    /\ routes[1].compare_type = "Prefix"
    /\ routes[1].path = S_Echo
    /\ conns[c].req[1].path = S_Echo \o S_FileA

(***************************************************************************)
(* C3: a decoded request that no entry matches has no handler called and    *)
(* gets the NotFound Response without body and headers, encoded as          *)
(* "HTTP/1.1 404 Not Found" and an empty line.                              *)
(***************************************************************************)
C3_NoMatchNotFound ==
  \A c \in Conns :
    (conns[c].req # <<>> /\ MatchingEntries(conns[c].req[1]) = {}) =>
      /\ Times(conns[c].log, "handler") = 0
      /\ conns[c].pc \in {"routed"} => conns[c].route = 0
      /\ Responded(c) =>
           conns[c].res[1] = [code |-> "NotFound", content |-> <<>>, headers |-> <<>>]
      /\ conns[c].wire # <<>> => conns[c].wire[1] = NotFoundBytes
      /\ conns[c].outcome = "sent" => conns[c].out = NotFoundBytes

\* a non-empty table matched nothing and the 404 was sent
C3_Witness ==
  \E c \in Conns :
    /\ conns[c].outcome = "sent"
    /\ Len(routes) >= 1
    /\ MatchingEntries(conns[c].req[1]) = {}
    /\ conns[c].out = NotFoundBytes

(***************************************************************************)
(* Vocabulary of the properties about requests on the wire.                *)
(***************************************************************************)
\* the places where p occurs in s
Occurrences(s, p) ==
  {k \in 1..Len(s) : k + Len(p) - 1 <= Len(s) /\ \A i \in 1..Len(p) : s[k + i - 1] = p[i]}

\* the text before the first p (all of s when p does not occur)
Before(s, p) ==
  LET places == Occurrences(s, p)
  IN IF places = {} THEN s ELSE SubSeq(s, 1, Least(places) - 1)

\* the text after the first p, which occurs
After(s, p) == Drop(s, Least(Occurrences(s, p)) + Len(p) - 1)

StartLine(bytes) == Before(bytes, CRLF)

\* the start-line has at least two space-separated tokens: a space occurs
\* with no line terminator before it
TwoTokens(bytes) ==
  \E k \in DOMAIN bytes :
    /\ bytes[k] = " "
    /\ \A j \in 1..(k - 1) : ~(bytes[j] = "\r" /\ bytes[j + 1] = "\n")

MethodToken(bytes) == Before(StartLine(bytes), SP)

PathToken(bytes) == Before(After(StartLine(bytes), SP), SP)

AllButLast(bytes) == [i \in 1..(Len(bytes) - 1) |-> bytes[i]]

\* the task of slot c got bytes from its read
HasRead(c) == conns[c].pc \notin {"free", "spawned"} /\ conns[c].outcome # "read_err"

\* the task of slot c ran Request::parse on conns[c].data[1]
Parsed(c) == conns[c].data # <<>>

StepOrder == <<"read", "decode", "route", "handler", "encode", "write", "end">>

Position(step) == CHOOSE i \in DOMAIN StepOrder : StepOrder[i] = step

\* the value of a string of decimal digits
RECURSIVE DecimalValue(_)
DecimalValue(s) ==
  IF s = <<>> THEN 0
  ELSE 10 * DecimalValue(SubSeq(s, 1, Len(s) - 1))
       + (CHOOSE d \in 0..9 : Digit(d) = s[Len(s)])

IsDecimalOf(s, n) ==
  /\ s # <<>>
  /\ \A i \in DOMAIN s : \E d \in 0..9 : s[i] = Digit(d)
  /\ Len(s) > 1 => s[1] # "0"
  /\ DecimalValue(s) = n

(***************************************************************************)
(* C4: a connection task takes its steps in the order read, decode, route, *)
(* handler, encode, write, end, each at most once; what it has written is   *)
(* an initial segment of its one encoded response.                          *)
(***************************************************************************)
C4_StepsOnceInOrder ==
  \A c \in Conns :
    /\ \A i \in DOMAIN conns[c].log :
         i > 1 => Position(conns[c].log[i - 1]) < Position(conns[c].log[i])
    /\ IF conns[c].wire = <<>> THEN conns[c].out = <<>>
       ELSE IsPrefixOf(conns[c].out, conns[c].wire[1])
    /\ conns[c].out # <<>> => Times(conns[c].log, "write") = 1

\* one task went through all seven steps while another's write failed
C4_Witness ==
  \E c, d \in Conns :
    /\ conns[c].log = StepOrder
    /\ conns[c].outcome = "sent"
    /\ conns[d].pc = "ended"
    /\ conns[d].outcome = "write_err"

(***************************************************************************)
(* C5 (as claimed): whenever Request::parse is given valid UTF-8 whose      *)
(* start-line is GET or POST, a space and a path token, it returns a        *)
(* Request with that method and that path, whatever the header lines.       *)
(***************************************************************************)
C5_ParseKeepsMethodAndPath ==
  \A c \in Conns :
    (/\ Parsed(c)
     /\ ValidUtf8(conns[c].data[1])
     /\ TwoTokens(conns[c].data[1])
     /\ MethodToken(conns[c].data[1]) \in {S_GET, S_POST}
     /\ PathToken(conns[c].data[1]) # <<>>) =>
      /\ conns[c].req # <<>>
      /\ conns[c].req[1].method = (IF MethodToken(conns[c].data[1]) = S_GET
                                   THEN "GET" ELSE "POST")
      /\ conns[c].req[1].path = PathToken(conns[c].data[1])

(***************************************************************************)
(* C6 (as claimed): whenever Request::parse is given valid UTF-8 whose      *)
(* start-line has fewer than two space-separated tokens, it returns an      *)
(* error to the task, as it does for invalid UTF-8, and no Request.         *)
(***************************************************************************)
C6_ShortStartLineIsAnError ==
  \A c \in Conns :
    (Parsed(c) /\ ValidUtf8(conns[c].data[1]) /\ ~TwoTokens(conns[c].data[1])) =>
      conns[c].outcome = "decode_err" /\ conns[c].req = <<>>

(***************************************************************************)
(* C7 (as claimed): a connection whose read fails, or whose received bytes  *)
(* are invalid UTF-8 or have a start-line of fewer than two tokens, has no  *)
(* byte written and no handler called.                                      *)
(***************************************************************************)
C7_NoResponseOnBadReceivedBytes ==
  \A c \in Conns :
    (\/ conns[c].outcome = "read_err"
     \/ HasRead(c) /\ (~ValidUtf8(conns[c].buf) \/ ~TwoTokens(conns[c].buf))) =>
      conns[c].out = <<>> /\ Never(conns[c].log, "handler")

(***************************************************************************)
(* C7 (amended): a connection whose read fails, or whose received bytes     *)
(* without their last byte are invalid UTF-8, or whose received bytes have  *)
(* a start-line of fewer than two tokens, has no byte written and no        *)
(* handler called: after the decode its task has ended.                     *)
(***************************************************************************)
C7_NoResponseOnUndecodable ==
  \A c \in Conns :
    (\/ conns[c].outcome = "read_err"
     \/ HasRead(c) /\ (~ValidUtf8(AllButLast(conns[c].buf)) \/ ~TwoTokens(conns[c].buf))) =>
      /\ conns[c].out = <<>>
      /\ Never(conns[c].log, "handler")
      /\ Never(conns[c].log, "encode")
      /\ Never(conns[c].log, "write")
      /\ conns[c].pc \in {"read", "ended"}

\* invalid UTF-8 ended one task without a response, a short start-line
\* another
C7_Witness ==
  \E c, d \in Conns :
    /\ conns[c].pc = "ended" /\ conns[c].outcome = "decode_err"
    /\ ~ValidUtf8(AllButLast(conns[c].buf))
    /\ conns[d].pc = "ended" /\ conns[d].outcome = "panic"
    /\ conns[d].buf # <<>> /\ ~TwoTokens(conns[d].buf)

(***************************************************************************)
(* C8 (as claimed): in a decoded Request every header line with ": " gives  *)
(* the entry from the text before its first ": " to all the text after it   *)
(* (the last such line of a key wins), and the entries come from such lines *)
(* only.                                                                    *)
(***************************************************************************)
HeaderLinesOf(bytes) == Tail(Split(Before(bytes, CRLFCRLF), CRLF))

C8_HeaderValueIsRestOfLine ==
  \A c \in Conns :
    conns[c].req # <<>> =>
      LET lines == HeaderLinesOf(conns[c].data[1])
          given == {i \in DOMAIN lines : Occurrences(lines[i], ColonSp) # {}}
          headers == conns[c].req[1].headers
      IN /\ \A i \in given :
              (\A j \in given : Before(lines[j], ColonSp) = Before(lines[i], ColonSp) => j <= i)
              => /\ Before(lines[i], ColonSp) \in DOMAIN headers
                 /\ headers[Before(lines[i], ColonSp)] = After(lines[i], ColonSp)
         /\ \A k \in DOMAIN headers : \E i \in given : Before(lines[i], ColonSp) = k

(***************************************************************************)
(* C9 (as claimed): for a path that begins with /echo/ the echo handler     *)
(* answers OK with the path less that leading /echo/ as body, Content-Type  *)
(* text/plain and Content-Length the body's byte length.                    *)
(***************************************************************************)
C9_EchoStripsLeadingPrefixOnly ==
  \A c \in Conns :
    (/\ Responded(c)
     /\ conns[c].route # 0
     /\ routes[conns[c].route].handler = "echo"
     /\ IsPrefixOf(S_EchoSlash, conns[c].req[1].path)) =>
      LET rest == Drop(conns[c].req[1].path, Len(S_EchoSlash))
          res == conns[c].res[1]
      IN /\ res.code = "OK"
         /\ res.content = <<rest>>
         /\ res.headers # <<>>
         /\ DOMAIN res.headers[1] = {S_ContentLength, S_ContentType}
         /\ res.headers[1][S_ContentType] = S_TextPlain
         /\ IsDecimalOf(res.headers[1][S_ContentLength], Len(rest))

(***************************************************************************)
(* C10: every Response, from a handler or the no-match default, with a      *)
(* Content-Length header has a body whose byte length in decimal is that    *)
(* header's value; a Response without body has no Content-Length header.    *)
(***************************************************************************)
C10_ContentLengthIsBodyLength ==
  \A c \in Conns :
    Responded(c) =>
      LET res == conns[c].res[1]
          hasLength == res.headers # <<>> /\ S_ContentLength \in DOMAIN res.headers[1]
      IN /\ hasLength =>
              /\ res.content # <<>>
              /\ IsDecimalOf(res.headers[1][S_ContentLength], Len(res.content[1]))
         /\ res.content = <<>> => ~hasLength

\* get_file answered with a file that holds a two-byte character
C10_Witness ==
  \E c \in Conns :
    /\ Responded(c)
    /\ conns[c].route # 0
    /\ routes[conns[c].route].handler = "get_file"
    /\ conns[c].res[1].content = <<S_Accent>>
    /\ conns[c].res[1].headers[1][S_ContentLength] = <<"2">>

(***************************************************************************)
(* Vocabulary of the properties about connections side by side.            *)
(***************************************************************************)
\* the Responses a request gets from a table, a base directory and a disk
ResponsesTo(req, table, dir, dsk) ==
  IF ExecuteFrom(table, 1, req) = 0 THEN {DefaultResponse}
  ELSE {CallHandler(table[ExecuteFrom(table, 1, req)].handler, req, dir, dsk, openOk, readOk) :
          openOk \in BOOLEAN, readOk \in BOOLEAN}

\* the byte strings a client that sent buf may be answered with when it is
\* the only client: none when the bytes do not decode
ServedAlone(buf, table, dir, dsk) ==
  IF Decode(buf).kind # "Ok" THEN {}
  ELSE UNION {{IntoBytes(res, order) : order \in HeaderOrders(res)} :
                res \in ResponsesTo(Decode(buf).req[1], table, dir, dsk)}

Failures == {"read_err", "decode_err", "panic", "write_err"}

Failed(c) == conns[c].outcome \in Failures

(***************************************************************************)
(* C11: the step in which a connection's read, decode (a panic of its task  *)
(* included) or write fails changes neither main nor any other connection; *)
(* once a connection has failed, main is still in its accept loop and       *)
(* accepts while a slot is free, and every other connection that was        *)
(* answered got the bytes its own request gets when it is the only one.     *)
(***************************************************************************)
C11_AfterFailure ==
  \A c \in Conns :
    Failed(c) =>
      /\ mainpc = "loop"
      /\ (\E d \in Conns : conns[d].pc = "free") => ENABLED AcceptOk(Conns)
      /\ \A d \in Conns \ {c} :
           conns[d].outcome = "sent" =>
             conns[d].out \in ServedAlone(conns[d].buf, MainRoutes, args[3], disk)

C11_FailureStep ==
  \A c \in Conns :
    (~Failed(c) /\ conns'[c].outcome \in Failures) =>
      /\ mainpc' = mainpc
      /\ \A d \in Conns \ {c} : conns'[d] = conns[d]

C11_FailuresStayLocal == []C11_AfterFailure /\ [][C11_FailureStep]_vars

\* a task panicked in the decode, and another connection was answered
C11_Witness ==
  \E c, d \in Conns :
    /\ conns[c].pc = "ended" /\ conns[c].outcome = "panic"
    /\ conns[d].pc = "ended" /\ conns[d].outcome = "sent"
    /\ conns[d].out \in ServedAlone(conns[d].buf, MainRoutes, args[3], disk)

(***************************************************************************)
(* C12: once main is in the accept loop it stays there; a failed accept     *)
(* (one more printed error) leaves every connection slot as it was; a step  *)
(* that spawns spawns exactly one task, in state "spawned", and prints no   *)
(* error; no slot becomes free again; and the loop goes on accepting, after *)
(* successes and failures alike, until the bounds leave no outcome.         *)
(***************************************************************************)
Spawned == {c \in Conns : conns[c].pc # "free"}

C12_AcceptStep ==
  /\ mainpc = "loop" => mainpc' = "loop"
  /\ acceptErrs' # acceptErrs => (acceptErrs' = acceptErrs + 1 /\ conns' = conns)
  /\ Spawned \subseteq Spawned'
  /\ Spawned' # Spawned =>
       /\ Cardinality(Spawned' \ Spawned) = 1
       /\ \A c \in Spawned' \ Spawned : conns'[c] = [FreeConn EXCEPT !.pc = "spawned"]
       /\ \A c \in Spawned : conns'[c] = conns[c]
       /\ acceptErrs' = acceptErrs

C12_AcceptsOn ==
  (mainpc = "loop") ~> (mainpc = "loop" /\ Spawned = Conns /\ acceptErrs = MaxAcceptErrs)

C12_AcceptLoopNeverEnds == [][C12_AcceptStep]_vars /\ C12_AcceptsOn

\* accepts failed and accepts succeeded, a task failed as well, and the loop
\* is still running when all tasks have ended
C12_Witness ==
  /\ mainpc = "loop"
  /\ acceptErrs = MaxAcceptErrs
  /\ \A c \in Conns : conns[c].pc = "ended"
  /\ \E c \in Conns : conns[c].outcome \in Failures

(***************************************************************************)
(* C13: the user-agent handler always answers OK.  When the request headers *)
(* have the key User-Agent, byte for byte, the body is that entry's value,  *)
(* Content-Type is text/plain and Content-Length the value's byte length in *)
(* decimal, and there is no other header; when they have no such key, a     *)
(* key in another case included, there is no body and there are no headers. *)
(***************************************************************************)
S_UserAgentLower == <<"u", "s", "e", "r", "-", "a", "g", "e", "n", "t">>

\* the handler of the entry that took the request of slot c
HandlerOf(c) == IF conns[c].route = 0 THEN "none" ELSE routes[conns[c].route].handler

C13_UserAgentAlwaysOk ==
  \A c \in Conns :
    (Responded(c) /\ HandlerOf(c) = "user_agent") =>
      LET headers == conns[c].req[1].headers
          res == conns[c].res[1]
      IN /\ res.code = "OK"
         /\ (\E k \in DOMAIN headers : k = S_UserAgent) =>
              /\ res.content = <<headers[S_UserAgent]>>
              /\ res.headers # <<>>
              /\ DOMAIN res.headers[1] = {S_ContentLength, S_ContentType}
              /\ res.headers[1][S_ContentType] = S_TextPlain
              /\ IsDecimalOf(res.headers[1][S_ContentLength], Len(headers[S_UserAgent]))
         /\ (\A k \in DOMAIN headers : k # S_UserAgent) =>
              /\ res.content = <<>>
              /\ res.headers = <<>>

\* the key was sent in lower case only, and the answer is OK without body
C13_Witness ==
  \E c \in Conns :
    /\ Responded(c) /\ HandlerOf(c) = "user_agent"
    /\ DOMAIN conns[c].req[1].headers = {S_UserAgentLower}
    /\ conns[c].res[1] = [code |-> "OK", content |-> <<>>, headers |-> <<>>]

(***************************************************************************)
(* C14: the get-file handler answers NotFound without body and headers when *)
(* the path does not begin with /files/, when the resolved name is not on   *)
(* the disk, when the open fails (the file may have gone since the check)   *)
(* and when the read fails; it answers OK only when check, open and read    *)
(* succeed, and then the body is the whole content of the file.             *)
(***************************************************************************)
NotFoundResponse == [code |-> "NotFound", content |-> <<>>, headers |-> <<>>]

\* the name get_file resolves a path that begins with /files/ to
Resolved(path) == <<"/">> \o directory \o <<"/">> \o Drop(path, Len(S_FilesSlash))

\* the file's content as the body of an OK Response
FileResponse(content) ==
  [code |-> "OK",
   content |-> <<content>>,
   headers |-> <<[k \in {S_ContentLength, S_ContentType} |->
                    IF k = S_ContentLength THEN ToDecimal(Len(content)) ELSE S_OctetStream]>>]

C14_GetFileNotFoundOrWhole ==
  \A c \in Conns :
    (conns[c].pc = "routed" \/ Responded(c)) /\ HandlerOf(c) = "get_file" =>
      LET req == conns[c].req[1]
          exists == IsPrefixOf(S_FilesSlash, req.path) /\ Resolved(req.path) \in DOMAIN disk
      IN /\ \A openOk \in BOOLEAN, readOk \in BOOLEAN :
              LET res == GetFile(req, directory, disk, openOk, readOk)
              IN /\ (~IsPrefixOf(S_FilesSlash, req.path) \/ ~exists \/ ~openOk \/ ~readOk)
                      => res = NotFoundResponse
                 /\ res.code = "OK" =>
                      /\ exists /\ openOk /\ readOk
                      /\ disk[Resolved(req.path)].kind = "file"
                      /\ res = FileResponse(disk[Resolved(req.path)].data)
                 /\ res.code = "NotFound" => res = NotFoundResponse
         /\ Responded(c) =>
              \/ conns[c].res[1] = NotFoundResponse
              \/ /\ exists
                 /\ disk[Resolved(req.path)].kind = "file"
                 /\ conns[c].res[1] = FileResponse(disk[Resolved(req.path)].data)

\* the file is on the disk, and still the answer is NotFound: open or read
\* failed
C14_Witness ==
  \E c \in Conns :
    /\ Responded(c) /\ HandlerOf(c) = "get_file"
    /\ conns[c].req[1].path = S_FilesSlash \o S_FileA
    /\ Resolved(conns[c].req[1].path) \in DOMAIN disk
    /\ conns[c].res[1] = NotFoundResponse

(***************************************************************************)
(* C15: while main is in the accept loop the route table and the base       *)
(* directory are the ones main built and no step changes them; a step       *)
(* changes at most one connection, and never the bytes a connection has     *)
(* received or the bytes encoded for it; and on a fixed disk the bytes      *)
(* encoded for a connection, whatever the others do, are bytes its own      *)
(* request gets when it is the only one, they are what it is sent, and it   *)
(* is sent nothing when nothing was encoded.                                *)
(***************************************************************************)
C15_SharedStateFixed ==
  /\ mainpc = "loop" => (routes = MainRoutes /\ directory = args[3])
  /\ \A c \in Conns :
       /\ conns[c].pc = "encoded" =>
            conns[c].wire[1] \in ServedAlone(conns[c].buf, MainRoutes, args[3], disk)
       /\ conns[c].outcome = "sent" => conns[c].out = conns[c].wire[1]
       /\ conns[c].out # <<>> => conns[c].wire # <<>>

C15_TaskStep ==
  /\ mainpc = "loop" => (routes' = routes /\ directory' = directory)
  /\ disk' = disk
  /\ \A c, d \in Conns : (conns'[c] # conns[c] /\ conns'[d] # conns[d]) => c = d
  /\ \A c \in Conns :
       /\ HasRead(c) => conns'[c].buf = conns[c].buf
       /\ conns[c].wire # <<>> => conns'[c].wire = conns[c].wire

C15_AloneOrTogether == []C15_SharedStateFixed /\ [][C15_TaskStep]_vars

\* two connections sent the same request were both answered from the disk
\* under the base directory, with the same bytes
C15_Witness ==
  \E c, d \in Conns :
    /\ c # d
    /\ conns[c].outcome = "sent" /\ conns[d].outcome = "sent"
    /\ HandlerOf(c) = "get_file" /\ HandlerOf(d) = "get_file"
    /\ conns[c].res[1].code = "OK"
    /\ conns[c].out = conns[d].out

(***************************************************************************)
(* C16: the bytes of a Response are the line "HTTP/1.1 " and the status     *)
(* text, then for each header exactly one line "name: value" and no other   *)
(* line, then an empty line, then the body bytes as they are (none for no   *)
(* body) and nothing after them; so when the Content-Length header is the   *)
(* body's length in decimal, that many bytes follow the empty line.         *)
(***************************************************************************)
StatusText(code) ==
  IF code = "OK" THEN <<"2", "0", "0", " ", "O", "K">>
  ELSE <<"4", "0", "4", " ", "N", "o", "t", " ", "F", "o", "u", "n", "d">>

C16_EncodedLayout ==
  \A c \in Conns :
    conns[c].wire # <<>> =>
      LET res == conns[c].res[1]
          wire == conns[c].wire[1]
          lines == HeaderLinesOf(wire)
          body == After(wire, CRLFCRLF)
          headers == IF res.headers = <<>> THEN <<>> ELSE res.headers[1]
      IN /\ Occurrences(wire, CRLFCRLF) # {}
         /\ StartLine(wire) = <<"H", "T", "T", "P", "/", "1", ".", "1", " ">> \o StatusText(res.code)
         /\ Len(lines) = Cardinality(DOMAIN headers)
         /\ \A k \in DOMAIN headers :
              Cardinality({i \in DOMAIN lines : lines[i] = k \o <<":", " ">> \o headers[k]}) = 1
         /\ body = (IF res.content = <<>> THEN <<>> ELSE res.content[1])
         /\ (/\ res.content # <<>>
             /\ S_ContentLength \in DOMAIN headers
             /\ IsDecimalOf(headers[S_ContentLength], Len(res.content[1])))
              => Len(body) = DecimalValue(headers[S_ContentLength])

\* a file that holds an empty line was encoded with its two headers
C16_Witness ==
  \E c \in Conns :
    /\ conns[c].wire # <<>>
    /\ conns[c].res[1].content = <<CRLFCRLF>>
    /\ DOMAIN conns[c].res[1].headers[1] = {S_ContentLength, S_ContentType}
    /\ After(conns[c].wire[1], CRLFCRLF) = CRLFCRLF

(***************************************************************************)
(* C17: a request whose method token is neither GET nor POST (DELETE, get,  *)
(* the empty token) is decoded with method GET, is taken by the first entry *)
(* that matches a GET request to its path, and gets a Response a GET        *)
(* request to that path gets; a request whose token is POST is decoded with *)
(* method POST and is taken only by an entry registered with POST.          *)
(***************************************************************************)
FirstMatch(req) == IF MatchingEntries(req) = {} THEN 0 ELSE Least(MatchingEntries(req))

C17_UnknownMethodIsGet ==
  \A c \in Conns :
    conns[c].req # <<>> =>
      LET token == MethodToken(conns[c].data[1])
          req == conns[c].req[1]
          asGet == [method |-> "GET", path |-> PathToken(conns[c].data[1]),
                    headers |-> req.headers]
          wasRouted == conns[c].pc # "decoded"
      IN /\ token \notin {S_GET, S_POST} =>
              /\ req.method = "GET"
              /\ wasRouted => conns[c].route = FirstMatch(asGet)
              /\ Responded(c) => conns[c].res[1] \in ResponsesTo(asGet, routes, directory, disk)
         /\ token = S_POST =>
              /\ req.method = "POST"
              /\ (wasRouted /\ conns[c].route # 0) => routes[conns[c].route].method = "POST"

\* a request "get /..." passed over a POST entry that matches its path and
\* was taken by the GET entry after it
C17_Witness ==
  \E c \in Conns :
    /\ Responded(c)
    /\ MethodToken(conns[c].data[1]) = S_Lower
    /\ conns[c].route = 2
    /\ routes[1].method = "POST" /\ routes[2].method = "GET"
    /\ routes[1].compare_type = "Exact" /\ routes[1].path = conns[c].req[1].path

(***************************************************************************)
(* C18: a read delivers at most MAX_BUFFER_SIZE bytes; when it delivers at  *)
(* least one, Request::parse is given those bytes without the last one, in  *)
(* order and unaltered; so of received bytes that are a method, one space   *)
(* and a path with no line terminator, the decoded path is the sent path    *)
(* without its last character.                                              *)
(***************************************************************************)
C18_LastByteDropped ==
  \A c \in Conns :
    HasRead(c) =>
      LET buf == conns[c].buf
      IN /\ Len(buf) <= MAX_BUFFER_SIZE
         /\ (Len(buf) >= 1 /\ conns[c].pc # "read") =>
              /\ Parsed(c)
              /\ Len(conns[c].data[1]) = Len(buf) - 1
              /\ \A i \in 1..(Len(buf) - 1) : conns[c].data[1][i] = buf[i]
         /\ (/\ conns[c].req # <<>>
             /\ Occurrences(buf, CRLF) = {}
             /\ Cardinality(Occurrences(buf, SP)) = 1
             /\ Len(PathToken(buf)) >= 2) =>
              conns[c].req[1].path = AllButLast(PathToken(buf))

\* "GET /echo/abc" sent alone was decoded with the path /echo/ab and answered
C18_Witness ==
  \E c \in Conns :
    /\ conns[c].buf = <<"G", "E", "T", " ", "/", "e", "c", "h", "o", "/", "a", "b", "c">>
    /\ conns[c].req # <<>>
    /\ conns[c].req[1].path = <<"/", "e", "c", "h", "o", "/", "a", "b">>
    /\ conns[c].outcome = "sent"

(***************************************************************************)
(* C19 (as claimed): unless the arguments after the program name are the    *)
(* flag --directory and one value, main never enters the accept loop and    *)
(* no connection task is ever spawned.                                      *)
(***************************************************************************)
FlagAndValue == Len(args) = 3 /\ args[2] = <<"-", "-", "d", "i", "r", "e", "c", "t", "o", "r", "y">>

C19_BadArgsNeverServe ==
  ~FlagAndValue => (mainpc # "loop" /\ \A c \in Conns : conns[c].pc = "free")

(***************************************************************************)
(* C20: a connection whose read delivered no byte never has Request::parse  *)
(* run, never has a Request, is never routed, encoded or written to, and    *)
(* its task ends by a panic, in a step that changes neither main nor any    *)
(* other connection; main is still in the accept loop and accepts while a   *)
(* slot is free.                                                            *)
(***************************************************************************)
ReadNothing(c) == HasRead(c) /\ conns[c].buf = <<>>

C20_EmptyReadState ==
  \A c \in Conns :
    ReadNothing(c) =>
      /\ ~Parsed(c)
      /\ conns[c].req = <<>> /\ conns[c].res = <<>> /\ conns[c].wire = <<>>
      /\ conns[c].out = <<>>
      /\ conns[c].log \in {<<"read">>, <<"read", "decode", "end">>}
      /\ conns[c].pc = "ended" => conns[c].outcome = "panic"
      /\ mainpc = "loop"
      /\ (\E d \in Conns : conns[d].pc = "free") => ENABLED AcceptOk(Conns)

C20_EmptyReadStep ==
  \A c \in Conns :
    (ReadNothing(c) /\ conns[c].pc = "read" /\ conns'[c].pc = "ended") =>
      /\ mainpc' = mainpc
      /\ \A d \in Conns \ {c} : conns'[d] = conns[d]

C20_EmptyReadAbortsOneTask == []C20_EmptyReadState /\ [][C20_EmptyReadStep]_vars

\* a task panicked on a read of no byte, and another connection has just
\* been sent its response
C20_Witness ==
  \E c, d \in Conns :
    /\ ReadNothing(c) /\ conns[c].outcome = "panic"
    /\ conns[d].pc = "written" /\ conns[d].outcome = "sent"
    /\ mainpc = "loop"

====
